---------------------------- MODULE Spec2Model ----------------------------
(***************************************************************************)
(* Model of scripts/fix_deepwiki_links.py: main() scans docs/deepwiki for  *)
(* *.md pages and, inside <details> regions, re-roots relative link        *)
(* targets; a page is written back only when a target changed.             *)
(*                                                                         *)
(* Text is modelled as a sequence of one-character strings.  Files hold    *)
(* ASCII text only, so UTF-8 decoding and encoding map each byte to the    *)
(* same character; the newline translation done by text-mode I/O is        *)
(* modelled explicitly.  I/O errors are not modelled.                      *)
(***************************************************************************)
EXTENDS Integers, Sequences, FiniteSets, TLC

(* ------------------------------ bounds --------------------------------- *)
\* Longest generated page a.md, in lines.
MaxLines == 3
\* Number of consecutive invocations of main().
MaxRuns == 2

(* --------------------------- characters -------------------------------- *)
LF == "\n"
CR == "\r"
FF == "\f"
TAB == "\t"
SP == " "

\* Characters that str.strip() removes and that \s matches (those of the
\* alphabet used here).
Whitespace == {SP, TAB, LF, CR, FF}

\* Line boundaries of str.splitlines() (those of the alphabet used here).
LineBreaks == {LF, CR, FF}

\* The characters of file names in code-point order; position gives the
\* ordering that sorted() uses on path names.
NameChars ==
    <<"-", ".", "0", "1", "2", "3", "4", "5", "6", "7", "8", "9", "A", "B", "C", "D", "E", "F", "G", "H", "I", "J", "K", "L", "M", "N", "O", "P", "Q", "R", "S", "T", "U", "V", "W", "X", "Y", "Z", "_", "a", "b", "c", "d", "e", "f", "g", "h", "i", "j", "k", "l", "m", "n", "o", "p", "q", "r", "s", "t", "u", "v", "w", "x", "y", "z">>

Ord(c) == CHOOSE i \in 1..Len(NameChars) : NameChars[i] = c

(* ------------------------ literals of the code ------------------------- *)
OPEN_MARKER ==
    <<"<", "d", "e", "t", "a", "i", "l", "s", ">">>
CLOSE_MARKER ==
    <<"<", "/", "d", "e", "t", "a", "i", "l", "s", ">">>
README_NAME ==
    <<"R", "E", "A", "D", "M", "E", ".", "m", "d">>
MD_SUFFIX ==
    <<".", "m", "d">>
LEGACY_TARGET ==
    <<"d", "o", "c", "/", "d", "o", "w", "n", "l", "o", "a", "d", "-", "f", "l", "o", "w", ".", "m", "d">>
NOTES_TARGET ==
    <<".", ".", "/", "n", "o", "t", "e", "s", "/", "d", "o", "w", "n", "l", "o", "a", "d", "_", "f", "l", "o", "w", ".", "m", "d">>
UP2 ==
    <<".", ".", "/", ".", ".", "/">>
P_HTTP ==
    <<"h", "t", "t", "p", ":", "/", "/">>
P_HTTPS ==
    <<"h", "t", "t", "p", "s", ":", "/", "/">>
P_HASH ==
    <<"#">>
P_UP ==
    <<".", ".", "/">>
P_HERE ==
    <<".", "/">>
KeepPrefixes == {P_HTTP, P_HTTPS, P_HASH, P_UP, P_HERE}

(* ------------------------- string operations --------------------------- *)
Min(S) == CHOOSE m \in S : \A n \in S : m <= n
Max(S) == CHOOSE m \in S : \A n \in S : n <= m

Drop(s, n) == SubSeq(s, n + 1, Len(s))

\* str.startswith
StartsWith(s, p) == Len(p) <= Len(s) /\ SubSeq(s, 1, Len(p)) = p

\* str.endswith
EndsWith(s, p) == Len(p) <= Len(s) /\ SubSeq(s, Len(s) - Len(p) + 1, Len(s)) = p

\* str.strip(): drop leading and trailing whitespace.
Strip(s) ==
    LET keep == {i \in 1..Len(s) : s[i] \notin Whitespace}
    IN  IF keep = {} THEN <<>> ELSE SubSeq(s, Min(keep), Max(keep))

\* Lexicographic order on strings by code point, as sorted() compares names.
RECURSIVE StrLess(_, _)
StrLess(a, b) ==
    IF b = <<>> THEN FALSE
    ELSE IF a = <<>> THEN TRUE
    ELSE IF a[1] = b[1] THEN StrLess(Tail(a), Tail(b))
    ELSE Ord(a[1]) < Ord(b[1])

\* sorted(): the sequence of the elements of S in ascending order.
RECURSIVE Sorted(_)
Sorted(S) ==
    IF S = {} THEN <<>>
    ELSE LET m == CHOOSE x \in S : \A y \in S \ {x} : StrLess(x, y)
         IN  <<m>> \o Sorted(S \ {m})

\* "".join(seq), concatenating by halves.
RECURSIVE Join(_)
Join(ss) ==
    IF Len(ss) = 0 THEN <<>>
    ELSE IF Len(ss) = 1 THEN ss[1]
    ELSE LET h == Len(ss) \div 2
         IN  Join(SubSeq(ss, 1, h)) \o Join(SubSeq(ss, h + 1, Len(ss)))

\* Text-mode read with newline=None (universal newlines): "\r\n" and a lone
\* "\r" both arrive as "\n".
UniversalNewlines(s) ==
    Join([i \in 1..Len(s) |->
            IF s[i] = CR THEN <<LF>>
            ELSE IF s[i] = LF /\ i > 1 /\ s[i - 1] = CR THEN <<>>
            ELSE <<s[i]>>])

\* Text-mode write with newline=None: every "\n" leaves as os.linesep.
TranslateOnWrite(s, sep) ==
    Join([i \in 1..Len(s) |-> IF s[i] = LF THEN sep ELSE <<s[i]>>])

\* str.splitlines(keepends=True): cut after every line boundary, "\r\n"
\* counting as one boundary; no empty final line.
RECURSIVE SplitLines(_)
SplitLines(s) ==
    IF s = <<>> THEN <<>>
    ELSE LET brk == {i \in 1..Len(s) : s[i] \in LineBreaks}
         IN  IF brk = {} THEN <<s>>
             ELSE LET b == Min(brk)
                      e == IF s[b] = CR /\ b < Len(s) /\ s[b + 1] = LF
                           THEN b + 1 ELSE b
                  IN  <<SubSeq(s, 1, e)>> \o SplitLines(Drop(s, e))

(* ------------------------------ link_re -------------------------------- *)
\* Index of the first character of s at or after from that is in C; 0 if none.
FirstIn(s, from, C) ==
    LET I == {i \in from..Len(s) : s[i] \in C}
    IN  IF I = {} THEN 0 ELSE Min(I)

\* Index of the first character of s at or after from that is not in C.
FirstNotIn(s, from, C) ==
    LET I == {i \in from..Len(s) : s[i] \notin C}
    IN  IF I = {} THEN 0 ELSE Min(I)

\* link_re.match(line) for ^(\s*-\s*\[[^\]]+\]\()([^)]+)(\)\s*)$ .
\* The three groups are determined by the first "-", "[", "]" and ")":
\* the text cannot hold "]", the target cannot hold ")", and the greedy
\* trailing \s* takes the line terminator into the suffix.
LinkMatch(line) ==
    LET dash == FirstNotIn(line, 1, Whitespace)
        okDash == dash > 0 /\ line[dash] = "-"
        lb == IF okDash THEN FirstNotIn(line, dash + 1, Whitespace) ELSE 0
        okOpen == lb > 0 /\ line[lb] = "["
        rb == IF okOpen THEN FirstIn(line, lb + 1, {"]"}) ELSE 0
        okText == rb > lb + 1 /\ rb < Len(line) /\ line[rb + 1] = "("
        lp == rb + 1
        rp == IF okText THEN FirstIn(line, lp + 1, {")"}) ELSE 0
        okTarget == rp > lp + 1
        okTail == okTarget /\ \A i \in (rp + 1)..Len(line) : line[i] \in Whitespace
    IN  IF okTail
        THEN [ok |-> TRUE,
              prefix |-> SubSeq(line, 1, lp),
              target |-> SubSeq(line, lp + 1, rp - 1),
              suffix |-> SubSeq(line, rp, Len(line))]
        ELSE [ok |-> FALSE, prefix |-> <<>>, target |-> <<>>, suffix |-> <<>>]

(* ---------------------------- rewrite rule ----------------------------- *)
\* Faulty variant: "../" is missing from the prefixes that are kept.
NewTarget_NoUpPrefix(target) ==
    IF target = LEGACY_TARGET THEN NOTES_TARGET
    ELSE IF \E p \in KeepPrefixes \ {P_UP} : StartsWith(target, p) THEN target
    ELSE UP2 \o target

\* Faulty variant: the legacy-path branch is missing.
NewTarget_NoLegacy(target) ==
    IF \E p \in KeepPrefixes : StartsWith(target, p) THEN target
    ELSE UP2 \o target

\* The if / elif / else on the matched target.
NewTarget(target) ==
    IF target = LEGACY_TARGET THEN NOTES_TARGET
    ELSE IF \E p \in KeepPrefixes : StartsWith(target, p) THEN target
    ELSE UP2 \o target

\* Faulty variant: the region test is missing.
Eligible_Always(flag) == TRUE

\* "if in_details:" -- whether a non-marker line is looked at at all.
Eligible(flag) == flag

\* The body of the loop for a line that is not a marker: the line appended
\* to out and whether it sets changed.
RewriteLine(flag, line) ==
    LET m == LinkMatch(line)
    IN  IF Eligible(flag) /\ m.ok /\ NewTarget(m.target) /= m.target
        THEN [line |-> m.prefix \o NewTarget(m.target) \o m.suffix, changed |-> TRUE]
        ELSE [line |-> line, changed |-> FALSE]

IsOpenMarker(line) == Strip(line) = OPEN_MARKER
IsCloseMarker(line) == Strip(line) = CLOSE_MARKER

\* Faulty variant: an open marker toggles the flag.
OnOpenMarker_Toggle(flag) == ~flag

\* "in_details = True" on an open marker.
OnOpenMarker(flag) == TRUE

\* "in_details = False" on a close marker.
OnCloseMarker(flag) == FALSE

\* Faulty variant: the flag is initialised once, before the outer loop.
InitInDetails_Carry(prev) == prev

\* "in_details = False" at the top of each document.
InitInDetails(prev) == FALSE

\* Faulty variant: the page is always written.
ShouldWrite_Always(flag) == TRUE

\* "if changed:" before write_text.
ShouldWrite(flag) == flag

\* Faulty variant: exists() instead of is_dir().
IsDir_Exists(kind) == kind /= "missing"

\* deepwiki_dir.is_dir()
IsDir(kind) == kind = "dir"

\* deepwiki_dir.glob("*.md") on the names of the directory's entries.
Glob(names) == {n \in names : EndsWith(n, MD_SUFFIX)}

\* Faulty variant: no file is skipped.
IsSkipped_Never(name) == FALSE

\* path.name == "README.md"
IsSkipped(name) == name = README_NAME

(* ------------------------------- inputs -------------------------------- *)
A_NAME ==
    <<"a", ".", "m", "d">>
B_NAME ==
    <<"b", ".", "m", "d">>
NOTES_NAME ==
    <<"n", "o", "t", "e", "s", ".", "t", "x", "t">>
DirEntries == {README_NAME, A_NAME, B_NAME, NOTES_NAME}

T_README ==
    <<"R", "E", "A", "D", "M", "E", ".", "m", "d">>
T_SWIFT ==
    <<"i", "o", "s", "/", "C", "l", "a", "s", "s", "e", "s", "/", "F", "o", "o", ".", "s", "w", "i", "f", "t">>
T_HTTPS ==
    <<"h", "t", "t", "p", "s", ":", "/", "/", "e", "x", "a", "m", "p", "l", "e", ".", "c", "o", "m", "/", "x">>
T_HTTP ==
    <<"h", "t", "t", "p", ":", "/", "/", "e", "x", "a", "m", "p", "l", "e", ".", "c", "o", "m">>
T_ANCHOR ==
    <<"#", "s", "e", "c", "t", "i", "o", "n">>
T_OTHER ==
    <<".", ".", "/", "o", "t", "h", "e", "r", ".", "m", "d">>
T_SIBLING ==
    <<".", "/", "s", "i", "b", "l", "i", "n", "g", ".", "m", "d">>
T_DOTFILE ==
    <<".", "g", "i", "t", "i", "g", "n", "o", "r", "e">>
Targets ==
    {LEGACY_TARGET, T_README, T_SWIFT, T_HTTPS, T_HTTP, T_ANCHOR, T_OTHER,
     T_SIBLING, T_DOTFILE}

PADDED_OPEN ==
    <<" ", " ", "<", "d", "e", "t", "a", "i", "l", "s", ">", "\t">>
LINK_HEAD ==
    <<" ", " ", "-", " ", "[", "x", "]", "(">>
LINK_TAIL ==
    <<")", " ">>
NEAR_MISS ==
    <<"-", " ", "[", "x", "]", "(", "R", "E", "A", "D", "M", "E", ".", "m", "d", ")", " ", "s", "e", "e">>

\* The line shapes of a generated page: an open marker with surrounding
\* blanks, a close marker, a bulleted link to target t, and a bulleted link
\* followed by more text (which link_re must not match).
Kinds == {"open", "close", "link", "text"}
Body(kind, t) ==
    CASE kind = "open" -> PADDED_OPEN
      [] kind = "close" -> CLOSE_MARKER
      [] kind = "link" -> LINK_HEAD \o t \o LINK_TAIL
      [] kind = "text" -> NEAR_MISS

Terminators == {<<LF>>, <<CR, LF>>, <<CR>>}

\* The text of a page with the given line shapes, every line ended by term
\* except that the last line is unterminated when finalNl is FALSE.
PageText(kinds, t, term, finalNl) ==
    Join([i \in 1..Len(kinds) |->
            Body(kinds[i], t) \o (IF i = Len(kinds) /\ ~finalNl THEN <<>> ELSE term)])

KindSeqs == UNION {[1..n -> Kinds] : n \in 0..MaxLines}

\* Generated pages: every sequence of line shapes with every target, LF
\* line ends; and with the other line ends, or an unterminated last line,
\* for one target.
PageTexts ==
    {PageText(k, t, <<LF>>, TRUE) : k \in KindSeqs, t \in Targets}
    \cup {PageText(k, T_README, term, TRUE) : k \in KindSeqs, term \in Terminators}
    \cup {PageText(k, T_README, <<LF>>, FALSE) : k \in KindSeqs}

\* An exported page with two <details> blocks, LF line ends.
TWO_BLOCKS ==
    <<"#", " ", "P", "a", "g", "e", "\n", "<", "d", "e", "t", "a", "i", "l", "s", ">", "\n", "-", " ", "[", "R", "E", "A", "D", "M", "E", ".", "m", "d", "]", "(", "R", "E", "A", "D", "M", "E", ".", "m", "d", ")", "\n", "<", "/", "d", "e", "t", "a", "i", "l", "s", ">", "\n", "O", "v", "e", "r", "v", "i", "e", "w", "\n", "<", "d", "e", "t", "a", "i", "l", "s", ">", "\n", "-", " ", "[", "L", "I", "C", "E", "N", "S", "E", "]", "(", "L", "I", "C", "E", "N", "S", "E", ")", "\n", "<", "/", "d", "e", "t", "a", "i", "l", "s", ">", "\n">>
\* A page with a bulleted root-relative link and no <details> block.
B_TEXT ==
    <<"-", " ", "[", "x", "]", "(", "R", "E", "A", "D", "M", "E", ".", "m", "d", ")", "\n">>
\* The landing page and a non-markdown file, both holding an in-region link
\* that the rule would re-root.
README_TEXT ==
    <<"<", "d", "e", "t", "a", "i", "l", "s", ">", "\n", "-", " ", "[", "x", "]", "(", "R", "E", "A", "D", "M", "E", ".", "m", "d", ")", "\n", "<", "/", "d", "e", "t", "a", "i", "l", "s", ">", "\n">>

\* The possible contents of docs/deepwiki when it is a directory.
Disks ==
    {[n \in DirEntries |->
        CASE n = A_NAME -> a
          [] n = B_NAME -> B_TEXT
          [] OTHER -> README_TEXT] : a \in PageTexts \cup {TWO_BLOCKS}}

\* What os.linesep can be: POSIX or Windows.
LineSeps == {<<LF>>, <<CR, LF>>}

(* ------------------------------- state --------------------------------- *)
VARIABLES
    dirKind,      \* what docs/deepwiki is: "dir", "file" or "missing"
    linesep,      \* os.linesep of the platform
    disk,         \* file name -> file content, for the entries of the directory
    pc,           \* position in main()
    exitStatus,   \* process exit status, -1 while running
    paths,        \* the rest of sorted(deepwiki_dir.glob("*.md"))
    path,         \* name of the document in hand, <<>> if none yet
    lines,        \* text.splitlines(keepends=True)
    in_details,
    changed,
    out,
    run,          \* number of the current invocation
    reads,        \* file name -> read_text calls in this invocation
    writes,       \* file name -> write_text calls in this invocation
    diskAtStart   \* disk as it was when this invocation started

vars ==
    <<dirKind, linesep, disk, pc, exitStatus, paths, path, lines, in_details,
      changed, out, run, reads, writes, diskAtStart>>

env == <<dirKind, linesep>>
locals == <<paths, path, lines, in_details, changed, out>>

Zero(d) == [n \in DOMAIN d |-> 0]

Init ==
    /\ dirKind \in {"dir", "file", "missing"}
    /\ linesep \in LineSeps
    /\ disk \in (IF dirKind = "dir" THEN Disks ELSE {<<>>})
    /\ pc = "start"
    /\ exitStatus = -1
    /\ paths = <<>>
    /\ path = <<>>
    /\ lines = <<>>
    /\ in_details = FALSE
    /\ changed = FALSE
    /\ out = <<>>
    /\ run = 1
    /\ reads = Zero(disk)
    /\ writes = Zero(disk)
    /\ diskAtStart = disk

(* ------------------------------ actions -------------------------------- *)
\* The is_dir() test: raise SystemExit(message), i.e. exit status 1.
CheckDir ==
    /\ pc = "start"
    /\ IF IsDir(dirKind)
       THEN pc' = "glob" /\ UNCHANGED exitStatus
       ELSE pc' = "aborted" /\ exitStatus' = 1
    /\ UNCHANGED <<env, disk, locals, run, reads, writes, diskAtStart>>

\* sorted(deepwiki_dir.glob("*.md"))
GlobDir ==
    /\ pc = "glob"
    /\ paths' = Sorted(Glob(DOMAIN disk))
    /\ pc' = "for_path"
    /\ UNCHANGED <<env, disk, exitStatus, path, lines, in_details, changed, out,
                   run, reads, writes, diskAtStart>>

\* The "continue" for README.md.
SkipPath ==
    /\ pc = "for_path"
    /\ paths /= <<>>
    /\ IsSkipped(Head(paths))
    /\ paths' = Tail(paths)
    /\ UNCHANGED <<env, disk, pc, exitStatus, path, lines, in_details, changed,
                   out, run, reads, writes, diskAtStart>>

\* read_text, splitlines and the three initialisations.
ReadPath ==
    /\ pc = "for_path"
    /\ paths /= <<>>
    /\ ~IsSkipped(Head(paths))
    /\ path' = Head(paths)
    /\ paths' = Tail(paths)
    /\ reads' = [reads EXCEPT ![Head(paths)] = @ + 1]
    /\ lines' = SplitLines(UniversalNewlines(disk[Head(paths)]))
    /\ in_details' = InitInDetails(in_details)
    /\ changed' = FALSE
    /\ out' = <<>>
    /\ pc' = "for_line"
    /\ UNCHANGED <<env, disk, exitStatus, run, writes, diskAtStart>>

\* One iteration of "for line in lines".
ProcessLine ==
    /\ pc = "for_line"
    /\ Len(out) < Len(lines)
    /\ LET line == lines[Len(out) + 1]
       IN  IF IsOpenMarker(line)
           THEN /\ in_details' = OnOpenMarker(in_details)
                /\ out' = Append(out, line)
                /\ UNCHANGED changed
           ELSE IF IsCloseMarker(line)
           THEN /\ in_details' = OnCloseMarker(in_details)
                /\ out' = Append(out, line)
                /\ UNCHANGED changed
           ELSE LET r == RewriteLine(in_details, line)
                IN  /\ out' = Append(out, r.line)
                    /\ changed' = (changed \/ r.changed)
                    /\ UNCHANGED in_details
    /\ UNCHANGED <<env, disk, pc, exitStatus, paths, path, lines, run, reads,
                   writes, diskAtStart>>

\* End of the inner loop: "if changed: path.write_text("".join(out))".
WriteBack ==
    /\ pc = "for_line"
    /\ Len(out) = Len(lines)
    /\ IF ShouldWrite(changed)
       THEN /\ disk' = [disk EXCEPT ![path] = TranslateOnWrite(Join(out), linesep)]
            /\ writes' = [writes EXCEPT ![path] = @ + 1]
       ELSE UNCHANGED <<disk, writes>>
    /\ pc' = "for_path"
    /\ UNCHANGED <<env, exitStatus, locals, run, reads, diskAtStart>>

\* The outer loop is exhausted: main() returns, exit status 0.
Finish ==
    /\ pc = "for_path"
    /\ paths = <<>>
    /\ pc' = "done"
    /\ exitStatus' = 0
    /\ UNCHANGED <<env, disk, locals, run, reads, writes, diskAtStart>>

\* The script is invoked again, directly after the previous invocation.
Rerun ==
    /\ pc \in {"done", "aborted"}
    /\ run < MaxRuns
    /\ run' = run + 1
    /\ pc' = "start"
    /\ exitStatus' = -1
    /\ paths' = <<>>
    /\ path' = <<>>
    /\ lines' = <<>>
    /\ in_details' = FALSE
    /\ changed' = FALSE
    /\ out' = <<>>
    /\ reads' = Zero(disk)
    /\ writes' = Zero(disk)
    /\ diskAtStart' = disk
    /\ UNCHANGED <<env, disk>>

Next ==
    \/ CheckDir
    \/ GlobDir
    \/ SkipPath
    \/ ReadPath
    \/ ProcessLine
    \/ WriteBack
    \/ Finish
    \/ Rerun

Spec == Init /\ [][Next]_vars

(* ------------------------ properties: vocabulary ----------------------- *)
IsMarker(line) == IsOpenMarker(line) \/ IsCloseMarker(line)

\* Among the first n lines of the document in hand there is a marker line
\* and the last one is an open marker.
LastMarkerOpen(n) ==
    LET M == {i \in 1..n : IsMarker(lines[i])}
    IN  M /= {} /\ IsOpenMarker(lines[Max(M)])

\* Line i lies inside a region: the nearest marker line above it is an open
\* marker.
InsideAt(i) == LastMarkerOpen(i - 1)

\* The lines emitted so far that differ from their input.
Rewritten == {i \in 1..Len(out) : out[i] /= lines[i]}

\* The inner loop of a document has ended and its write-back was decided.
DocDone == pc = "for_path" /\ path /= <<>>

\* A document is being processed or has just been processed.
InDoc == pc = "for_line" \/ DocDone

\* Line i of the document in hand is a link line whose target the rule table
\* changes.
Rewritable(i) ==
    LET m == LinkMatch(lines[i])
    IN  m.ok /\ ~StartsWith(m.target, P_HTTP) /\ ~StartsWith(m.target, P_HTTPS)
             /\ ~StartsWith(m.target, P_HASH) /\ ~StartsWith(m.target, P_UP)
             /\ ~StartsWith(m.target, P_HERE)

(* ------------------------------ C1 ------------------------------------- *)
\* C1: idempotence of the whole run.  In an invocation that directly follows
\* another one no file is written and no file content changes; and every
\* rewritten line holds a target that the rewrite rule leaves unchanged.
C1_Idempotent ==
    /\ run >= 2 => /\ disk = diskAtStart
                   /\ \A n \in DOMAIN writes : writes[n] = 0
    /\ InDoc => \A i \in Rewritten :
                    LET m == LinkMatch(out[i])
                    IN  m.ok /\ NewTarget(m.target) = m.target

\* A second invocation has processed a page that holds, inside a region, a
\* link re-rooted by the first invocation.
C1_Witness ==
    /\ run = 2
    /\ DocDone
    /\ \E i \in 1..Len(lines) :
          /\ InsideAt(i)
          /\ LinkMatch(lines[i]).ok
          /\ StartsWith(LinkMatch(lines[i]).target, UP2)

(* ------------------------------ C2 ------------------------------------- *)
\* C2: a document is written back if and only if at least one of its lines
\* was changed; a document without a changed line gets no write.
C2_WriteIffChanged ==
    /\ pc = "for_line" => writes[path] = 0
    /\ DocDone => /\ writes[path] \in {0, 1}
                  /\ writes[path] = 1 <=> Rewritten /= {}

\* A page holding an in-region link line that the rule keeps was processed
\* and not written.
C2_Witness ==
    /\ DocDone
    /\ writes[path] = 0
    /\ \E i \in 1..Len(lines) :
          InsideAt(i) /\ LinkMatch(lines[i]).ok /\ ~Rewritable(i)

(* ------------------------------ C3 ------------------------------------- *)
\* C3: region confinement.  A line is emitted different from its input only
\* if in_details is true when the line is processed.
C3_RegionConfinement ==
    [][(/\ pc = "for_line"
        /\ Len(out') = Len(out) + 1
        /\ out'[Len(out')] /= lines[Len(out')]) => in_details]_vars

\* A rewritable link line above every marker of its page was emitted
\* unchanged.
C3_Witness ==
    /\ InDoc
    /\ \E i \in 1..Len(out) :
          /\ Rewritable(i)
          /\ \A k \in 1..(i - 1) : ~IsMarker(lines[k])
          /\ out[i] = lines[i]

(* ------------------------------ C4 ------------------------------------- *)
UP2_README ==
    <<".", ".", "/", ".", ".", "/", "R", "E", "A", "D", "M", "E", ".", "m", "d">>
UP2_SWIFT ==
    <<".", ".", "/", ".", ".", "/", "i", "o", "s", "/", "C", "l", "a", "s", "s", "e", "s", "/", "F", "o", "o", ".", "s", "w", "i", "f", "t">>

\* The rule table as the specification words it.
TableTarget(t) ==
    CASE t = LEGACY_TARGET -> NOTES_TARGET
      [] t /= LEGACY_TARGET /\ (\/ StartsWith(t, P_HTTP) \/ StartsWith(t, P_HTTPS)
                                \/ StartsWith(t, P_HASH) \/ StartsWith(t, P_UP)
                                \/ StartsWith(t, P_HERE)) -> t
      [] OTHER -> UP2 \o t

\* The targets the specification names, with the target each must become.
NamedCases ==
    {<<LEGACY_TARGET, NOTES_TARGET>>, <<T_README, UP2_README>>,
     <<T_SWIFT, UP2_SWIFT>>, <<T_HTTPS, T_HTTPS>>, <<T_ANCHOR, T_ANCHOR>>,
     <<T_OTHER, T_OTHER>>, <<T_SIBLING, T_SIBLING>>}

\* C4: rule table, first match wins.  Every matched link line inside a
\* region is emitted as prefix + new target + suffix, the new target being
\* the one the table gives; the named targets become the named results.
C4_RuleTable ==
    InDoc =>
        \A i \in 1..Len(out) :
            LET m == LinkMatch(lines[i])
            IN  (InsideAt(i) /\ ~IsMarker(lines[i]) /\ m.ok) =>
                    /\ out[i] = m.prefix \o TableTarget(m.target) \o m.suffix
                    /\ \A c \in NamedCases :
                          m.target = c[1] => out[i] = m.prefix \o c[2] \o m.suffix

\* The legacy path was met inside a region and its line was rewritten.
C4_Witness ==
    /\ InDoc
    /\ \E i \in 1..Len(out) :
          /\ InsideAt(i)
          /\ LinkMatch(lines[i]).ok
          /\ LinkMatch(lines[i]).target = LEGACY_TARGET
          /\ out[i] /= lines[i]

(* ------------------------------ C5 ------------------------------------- *)
\* C5: when a document is written back, the file has the same number of
\* lines as before; every line that was not rewritten is byte-for-byte the
\* line of the original file, line terminator included; a rewritten line
\* keeps the prefix and the suffix (with its terminator) of the original.
C5_ByteForByte ==
    (DocDone /\ writes[path] = 1) =>
        LET orig == SplitLines(diskAtStart[path])
            new == SplitLines(disk[path])
        IN  /\ Len(new) = Len(orig)
            /\ \A i \in 1..Len(orig) :
                  IF i \in Rewritten
                  THEN /\ LinkMatch(new[i]).ok
                       /\ LinkMatch(new[i]).prefix = LinkMatch(orig[i]).prefix
                       /\ LinkMatch(new[i]).suffix = LinkMatch(orig[i]).suffix
                  ELSE new[i] = orig[i]

(* ------------------------------ C6 ------------------------------------- *)
\* C6: README.md of the directory is never read and never written, and its
\* content stays; when the run ends every other *.md entry was read once and
\* no other entry was read.
C6_Exclusion ==
    /\ README_NAME \in DOMAIN disk =>
          /\ reads[README_NAME] = 0
          /\ writes[README_NAME] = 0
          /\ disk[README_NAME] = diskAtStart[README_NAME]
    /\ pc = "done" =>
          \A n \in DOMAIN disk :
              reads[n] = (IF EndsWith(n, MD_SUFFIX) /\ n /= README_NAME THEN 1 ELSE 0)

\* A run over a directory whose README.md holds a rewritable in-region link
\* has ended, the other pages processed.
C6_Witness ==
    /\ pc = "done"
    /\ README_NAME \in DOMAIN disk
    /\ \E i \in 1..Len(SplitLines(disk[README_NAME])) :
          LinkMatch(SplitLines(disk[README_NAME])[i]).target = T_README
    /\ reads[A_NAME] = 1
    /\ reads[B_NAME] = 1

(* ------------------------------ C7 ------------------------------------- *)
\* C7: when docs/deepwiki is missing or is not a directory, the run ends
\* with a nonzero exit status before anything is enumerated, read or
\* written.
C7_MissingDirAbort ==
    dirKind /= "dir" =>
        /\ pc \in {"start", "aborted"}
        /\ pc = "aborted" => exitStatus = 1
        /\ exitStatus /= 0
        /\ paths = <<>> /\ path = <<>> /\ lines = <<>> /\ out = <<>>
        /\ \A n \in DOMAIN disk : reads[n] = 0 /\ writes[n] = 0
        /\ disk = diskAtStart

\* The run was aborted for a path that exists but is not a directory.
C7_Witness == pc = "aborted" /\ dirKind = "file" /\ exitStatus = 1

(* ------------------------------ C8 ------------------------------------- *)
\* C8 as stated: in_details is false when the processing of a document
\* starts and false when it ends, whatever the lines.
C8_FalseAtStartAndEnd ==
    /\ (pc = "for_line" /\ out = <<>>) => ~in_details
    /\ DocDone => ~in_details

\* C8 as amended: in_details is false when the processing of a document
\* starts; when it ends, in_details is true exactly when the last marker
\* line of the document is an open marker.
C8_FalseAtStart ==
    /\ (pc = "for_line" /\ out = <<>>) => ~in_details
    /\ DocDone => (in_details <=> LastMarkerOpen(Len(lines)))

\* A document with an open marker that is never closed was processed to its
\* end.
C8_Witness == DocDone /\ in_details /\ \E i \in 1..Len(lines) : IsOpenMarker(lines[i])

(* ------------------------------ C9 ------------------------------------- *)
\* C9: all rewritten lines of a document lie within one block: no close
\* marker stands between two rewritten lines.
C9_SingleBlock ==
    InDoc =>
        \A i \in Rewritten : \A j \in Rewritten :
            i < j => ~\E k \in (i + 1)..(j - 1) : IsCloseMarker(lines[k])

(* ------------------------------ C10 ------------------------------------ *)
\* C10: after any prefix of a document's lines, in_details holds exactly
\* when the prefix has a marker line and the last one is an open marker (no
\* nesting depth); marker lines are emitted unchanged.
C10_LastMarkerDecides ==
    InDoc =>
        /\ in_details <=> LastMarkerOpen(Len(out))
        /\ \A i \in 1..Len(out) : IsMarker(lines[i]) => out[i] = lines[i]

\* Two open markers were followed by one close marker, which left the region.
C10_Witness ==
    /\ pc = "for_line"
    /\ ~in_details
    /\ \E i \in 1..Len(out) : \E j \in 1..Len(out) :
          /\ i < j /\ j < Len(out)
          /\ IsOpenMarker(lines[i]) /\ IsOpenMarker(lines[j])
          /\ IsCloseMarker(lines[Len(out)])
=============================================================================
